---- MODULE Spec2Model ----
(***************************************************************************)
(* Symbolic models of strlen, strcmp and strcpy                            *)
(* (manticore/native/models.py).                                           *)
(*                                                                         *)
(* A value is a Python int ([op |-> "int"]) or an smtlib Expression        *)
(* (every other op).  Memory maps addresses to 8-bit values.  The          *)
(* constraint set is a set of Bool expressions; the solver oracle          *)
(* can_be_true is modelled by its meaning: some assignment of the          *)
(* symbolic variables satisfies every constraint and the queried formula.  *)
(***************************************************************************)
EXTENDS Integers, Sequences, FiniteSets

VARIABLES mem, mem0, constrs, fn, arg1, arg2, outcome, ret, argnum, log, nwrites

vars == <<mem, mem0, constrs, fn, arg1, arg2, outcome, ret, argnum, log, nwrites>>

----------------------------------------------------------------------------
(* Bounds *)

\* number of mapped memory cells of Spec; an access outside faults
MemSize == 4
\* concrete bytes and the values of symbolic bytes range over 0..MaxByte
MaxByte == 2
\* cells of each of the two string buffers of SpecDisjoint
BufSize == 3
\* cpu.address_bit_size
AddressBitSize == 16

Bytes == 0 .. MaxByte
\* the symbolic variables that memory bytes can be
Vars == {"x", "y"}
Assignments == [Vars -> Bytes]

----------------------------------------------------------------------------
(* Values: Python ints, Python bools and smtlib expressions *)

PyInt(n) == [op |-> "int", val |-> n]
PyBool(b) == [op |-> "bool", val |-> b]
None == [op |-> "none"]
BitVecVariable(size, id) == [op |-> "var", size |-> size, id |-> id]
BitVecConstant(size, n) == [op |-> "const", size |-> size, val |-> n]

issymbolic(x) == x.op \notin {"int", "bool", "none"}

\* an int operand of an expression node becomes a BitVecConstant
ToBV(size, x) == IF x.op = "int" THEN BitVecConstant(size, x.val) ELSE x

\* x != y : a Python bool for two ints, a Bool expression otherwise
NE(size, x, y) ==
    IF x.op = "int" /\ y.op = "int"
    THEN PyBool(x.val # y.val)
    ELSE [op |-> "ne", a |-> ToBV(size, x), b |-> ToBV(size, y)]

\* x == y
EQ(size, x, y) ==
    IF x.op = "int" /\ y.op = "int"
    THEN PyBool(x.val = y.val)
    ELSE [op |-> "eq", a |-> ToBV(size, x), b |-> ToBV(size, y)]

\* x - y : Python int subtraction for two ints, BitVecSub otherwise
SUB(size, x, y) ==
    IF x.op = "int" /\ y.op = "int"
    THEN PyInt(x.val - y.val)
    ELSE [op |-> "sub", size |-> size, a |-> ToBV(size, x), b |-> ToBV(size, y)]

ZEXTEND(x, size) ==
    IF x.op = "int"
    THEN PyInt(x.val % (2 ^ size))
    ELSE [op |-> "zext", size |-> size, a |-> x]

ITEBV(size, cond, true_value, false_value) ==
    IF cond.op = "bool"
    THEN (IF cond.val THEN true_value ELSE false_value)
    ELSE [op |-> "ite", size |-> size, c |-> cond,
          t |-> ToBV(size, true_value), e |-> ToBV(size, false_value)]

----------------------------------------------------------------------------
(* Meaning of expressions under an assignment of the symbolic variables *)

RECURSIVE EvalBV(_, _), EvalBool(_, _)

EvalBV(x, a) ==
    CASE x.op = "int"   -> x.val
      [] x.op = "const" -> x.val % (2 ^ x.size)
      [] x.op = "var"   -> a[x.id]
      [] x.op = "zext"  -> EvalBV(x.a, a)
      [] x.op = "sub"   -> (EvalBV(x.a, a) - EvalBV(x.b, a)) % (2 ^ x.size)
      [] x.op = "ite"   -> IF EvalBool(x.c, a) THEN EvalBV(x.t, a) ELSE EvalBV(x.e, a)

EvalBool(x, a) ==
    CASE x.op = "bool" -> x.val
      [] x.op = "ne"   -> EvalBV(x.a, a) # EvalBV(x.b, a)
      [] x.op = "eq"   -> EvalBV(x.a, a) = EvalBV(x.b, a)

\* the assignments that satisfy every constraint of the set
Models(cs) == {a \in Assignments : \A c \in cs : EvalBool(c, a)}

\* Z3Solver.instance().can_be_true(constrs, expr)
can_be_true(cs, expr) == \E a \in Models(cs) : EvalBool(expr, a)

----------------------------------------------------------------------------
(* Address space *)

Mapped(m, addr) == addr \in DOMAIN m

\* cpu.read_int(addr, 8); the caller checks Mapped(addr)
read_int(m, addr) == m[addr]

\* cpu.write_int(addr, value, 8)
write_int(m, addr, value) == [m EXCEPT ![addr] = value]

----------------------------------------------------------------------------
(* Null classifier *)

\* is_NULL that asks the solver not_NULL's question
is_NULL_wrong_query(byte, cs) ==
    IF issymbolic(byte)
    THEN ~ can_be_true(cs, EQ(8, byte, PyInt(0)))
    ELSE byte.val = 0

is_NULL(byte, cs) ==
    IF issymbolic(byte)
    THEN ~ can_be_true(cs, NE(8, byte, PyInt(0)))
    ELSE byte.val = 0

not_NULL(byte, cs) ==
    IF issymbolic(byte)
    THEN ~ can_be_true(cs, EQ(8, byte, PyInt(0)))
    ELSE byte.val # 0

\* the record of one can_be_true call about the byte read at addr
Query(addr, byte) == [addr |-> addr, byte |-> byte]

\* the solver queries one classifier call issues about the byte at addr
ClassifierQueries(byte, addr) == IF issymbolic(byte) THEN <<Query(addr, byte)>> ELSE <<>>

----------------------------------------------------------------------------
(* Zero scanner *)

RECURSIVE find_zero_loop(_, _, _, _, _)

\* the while loop of _find_zero, entered with the given offset; lg is the
\* list of the solver queries issued so far
find_zero_loop(m, cs, ptr, offset, lg) ==
    IF ~ Mapped(m, ptr + offset)
    THEN [fault |-> TRUE, offset |-> offset, log |-> lg]
    ELSE LET byt == read_int(m, ptr + offset) IN
         IF issymbolic(byt)
         THEN IF ~ can_be_true(cs, NE(8, byt, PyInt(0)))
              THEN [fault |-> FALSE, offset |-> offset, log |-> Append(lg, Query(ptr + offset, byt))]
              ELSE find_zero_loop(m, cs, ptr, offset + 1, Append(lg, Query(ptr + offset, byt)))
         ELSE IF byt.val = 0
              THEN [fault |-> FALSE, offset |-> offset, log |-> lg]
              ELSE find_zero_loop(m, cs, ptr, offset + 1, lg)

\* a scan that repeats every solver query
_find_zero_asks_twice(m, cs, ptr) ==
    LET z == find_zero_loop(m, cs, ptr, 0, <<>>) IN
    [z EXCEPT !.log = z.log \o z.log]

_find_zero(m, cs, ptr) == find_zero_loop(m, cs, ptr, 0, <<>>)

RECURSIVE find_zeros_loop(_, _, _, _, _, _)

\* a scan that tests for the forced terminator only when the byte cannot be zero
find_zeros_loop_elif(m, cs, ptr, offset, can_be_zero, lg) ==
    IF ~ Mapped(m, ptr + offset)
    THEN [fault |-> TRUE, zeros |-> can_be_zero, log |-> lg]
    ELSE LET byt == read_int(m, ptr + offset) IN
         IF issymbolic(byt)
         THEN LET lg2 == lg \o <<Query(ptr + offset, byt), Query(ptr + offset, byt)>> IN
              IF can_be_true(cs, EQ(8, byt, PyInt(0)))
              THEN find_zeros_loop(m, cs, ptr, offset + 1, Append(can_be_zero, offset), lg2)
              ELSE IF ~ can_be_true(cs, NE(8, byt, PyInt(0)))
              THEN [fault |-> FALSE, zeros |-> can_be_zero, log |-> lg2]
              ELSE find_zeros_loop(m, cs, ptr, offset + 1, can_be_zero, lg2)
         ELSE IF byt.val = 0
              THEN [fault |-> FALSE, zeros |-> Append(can_be_zero, offset), log |-> lg]
              ELSE find_zeros_loop(m, cs, ptr, offset + 1, can_be_zero, lg)

\* the while loop of _find_zeros
find_zeros_loop(m, cs, ptr, offset, can_be_zero, lg) ==
    IF ~ Mapped(m, ptr + offset)
    THEN [fault |-> TRUE, zeros |-> can_be_zero, log |-> lg]
    ELSE LET byt == read_int(m, ptr + offset) IN
         IF issymbolic(byt)
         THEN LET cbz == IF can_be_true(cs, EQ(8, byt, PyInt(0)))
                         THEN Append(can_be_zero, offset)
                         ELSE can_be_zero
                  lg2 == lg \o <<Query(ptr + offset, byt), Query(ptr + offset, byt)>>
              IN  IF ~ can_be_true(cs, NE(8, byt, PyInt(0)))
                  THEN [fault |-> FALSE, zeros |-> cbz, log |-> lg2]
                  ELSE find_zeros_loop(m, cs, ptr, offset + 1, cbz, lg2)
         ELSE IF byt.val = 0
              THEN [fault |-> FALSE, zeros |-> Append(can_be_zero, offset), log |-> lg]
              ELSE find_zeros_loop(m, cs, ptr, offset + 1, can_be_zero, lg)

_find_zeros(m, cs, ptr) == find_zeros_loop(m, cs, ptr, 0, <<>>, <<>>)

----------------------------------------------------------------------------
(* Results of a model call *)

Returned(value, m, lg, nw) ==
    [outcome |-> "returned", ret |-> value, argnum |-> 0,
     mem |-> m, log |-> lg, nwrites |-> nw]

\* raise ConcretizeArgument(state.cpu, n)
ConcretizeArgument(n, m) ==
    [outcome |-> "ConcretizeArgument", ret |-> None, argnum |-> n,
     mem |-> m, log |-> <<>>, nwrites |-> 0]

\* an access to an unmapped address ends the call with a memory exception
MemoryFault(m, lg, nw) ==
    [outcome |-> "MemoryFault", ret |-> None, argnum |-> 0,
     mem |-> m, log |-> lg, nwrites |-> nw]

----------------------------------------------------------------------------
(* strlen *)

RECURSIVE strlen_loop(_, _, _, _)

\* for offset in range(zero_idx - 1, -1, -1)
strlen_loop(m, s, offset, r) ==
    IF offset < 0
    THEN r
    ELSE LET byt == read_int(m, s + offset) IN
         strlen_loop(m, s, offset - 1,
                     IF issymbolic(byt)
                     THEN ITEBV(AddressBitSize, EQ(8, byt, PyInt(0)), PyInt(offset), r)
                     ELSE r)

\* strlen that forgets the symbolic bytes before the terminator
strlen_no_fold(m, cs, s) ==
    IF issymbolic(s)
    THEN ConcretizeArgument(1, m)
    ELSE LET z == _find_zero(m, cs, s.val) IN
         IF z.fault
         THEN MemoryFault(m, z.log, 0)
         ELSE Returned(PyInt(z.offset), m, z.log, 0)

strlen(m, cs, s) ==
    IF issymbolic(s)
    THEN ConcretizeArgument(1, m)
    ELSE LET z == _find_zero(m, cs, s.val) IN
         IF z.fault
         THEN MemoryFault(m, z.log, 0)
         ELSE Returned(strlen_loop(m, s.val, z.offset - 1, PyInt(z.offset)), m, z.log, 0)

----------------------------------------------------------------------------
(* strcmp *)

min(a, b) == IF a <= b THEN a ELSE b

\* strcmp step in which a concrete mismatch does not replace a carried result
strcmp_step_keep(s1char, s2char, r) ==
    IF issymbolic(s1char) \/ issymbolic(s2char)
    THEN IF r.op = "none" \/ (~ issymbolic(r) /\ r.val = 0)
         THEN SUB(AddressBitSize, s1char, s2char)
         ELSE ITEBV(AddressBitSize, NE(AddressBitSize, s1char, s2char),
                    SUB(AddressBitSize, s1char, s2char), r)
    ELSE IF r.op = "none"
         THEN SUB(AddressBitSize, s1char, s2char)
         ELSE r

\* one iteration of the strcmp loop: the new value of ret
strcmp_step(s1char, s2char, r) ==
    IF issymbolic(s1char) \/ issymbolic(s2char)
    THEN IF r.op = "none" \/ (~ issymbolic(r) /\ r.val = 0)
         THEN SUB(AddressBitSize, s1char, s2char)
         ELSE ITEBV(AddressBitSize, NE(AddressBitSize, s1char, s2char),
                    SUB(AddressBitSize, s1char, s2char), r)
    ELSE IF s1char.val # s2char.val
         THEN SUB(AddressBitSize, s1char, s2char)
         ELSE IF r.op = "none" THEN PyInt(0) ELSE r

RECURSIVE strcmp_loop(_, _, _, _, _)

\* for offset in range(min_zero_idx, -1, -1)
strcmp_loop(m, s1, s2, offset, r) ==
    IF offset < 0
    THEN r
    ELSE LET s1char == ZEXTEND(read_int(m, s1 + offset), AddressBitSize)
             s2char == ZEXTEND(read_int(m, s2 + offset), AddressBitSize)
         IN  strcmp_loop(m, s1, s2, offset - 1, strcmp_step(s1char, s2char, r))

strcmp(m, cs, s1, s2) ==
    IF issymbolic(s1) THEN ConcretizeArgument(1, m)
    ELSE IF issymbolic(s2) THEN ConcretizeArgument(2, m)
    ELSE LET z1 == _find_zero(m, cs, s1.val) IN
         IF z1.fault THEN MemoryFault(m, z1.log, 0)
         ELSE LET z2 == _find_zero(m, cs, s2.val) IN
              IF z2.fault THEN MemoryFault(m, z1.log \o z2.log, 0)
              ELSE Returned(strcmp_loop(m, s1.val, s2.val,
                                        min(z1.offset, z2.offset), None),
                            m, z1.log \o z2.log, 0)

----------------------------------------------------------------------------
(* strcpy *)

RECURSIVE strcpy_copy(_, _, _, _, _, _)

\* a copy loop that forgets to advance dst
strcpy_copy_fixed_dst(m, cs, src, dst, lg, nw) ==
    IF ~ Mapped(m, src)
    THEN [fault |-> TRUE, mem |-> m, src |-> src, dst |-> dst, log |-> lg, nwrites |-> nw]
    ELSE LET c == read_int(m, src)
             lg2 == lg \o ClassifierQueries(c, src)
         IN  IF not_NULL(c, cs)
             THEN IF ~ Mapped(m, dst)
                  THEN [fault |-> TRUE, mem |-> m, src |-> src, dst |-> dst,
                        log |-> lg2, nwrites |-> nw]
                  ELSE strcpy_copy(write_int(m, dst, c), cs, src + 1, dst, lg2, nw + 1)
             ELSE [fault |-> FALSE, mem |-> m, src |-> src, dst |-> dst,
                   log |-> lg2, nwrites |-> nw]

\* c = cpu.read_int(src, 8) followed by the loop "while not_NULL(c, constrs)":
\* stops at the first source byte that is not provably non-null
strcpy_copy(m, cs, src, dst, lg, nw) ==
    IF ~ Mapped(m, src)
    THEN [fault |-> TRUE, mem |-> m, src |-> src, dst |-> dst, log |-> lg, nwrites |-> nw]
    ELSE LET c == read_int(m, src)
             lg2 == lg \o ClassifierQueries(c, src)
         IN  IF not_NULL(c, cs)
             THEN IF ~ Mapped(m, dst)
                  THEN [fault |-> TRUE, mem |-> m, src |-> src, dst |-> dst,
                        log |-> lg2, nwrites |-> nw]
                  ELSE strcpy_copy(write_int(m, dst, c), cs, src + 1, dst + 1, lg2, nw + 1)
             ELSE [fault |-> FALSE, mem |-> m, src |-> src, dst |-> dst,
                   log |-> lg2, nwrites |-> nw]

RECURSIVE strcpy_fold(_, _, _, _, _)

\* a fold that leaves out the earliest candidate
strcpy_fold_skip_first(m, src, zeros, i, vals) ==
    IF i < 2
    THEN vals.src_val
    ELSE LET c == read_int(m, src + zeros[i]) IN
         strcpy_fold(m, src, zeros, i - 1,
                     [vals EXCEPT !.src_val =
                         ITEBV(8, NE(8, c, PyInt(0)), vals.src_val, vals.dst_val)])

\* for zero in reversed(zeros): src_val = ITEBV(8, c != 0, src_val, dst_val)
\* i is the index in zeros of the next candidate to wrap with
strcpy_fold(m, src, zeros, i, vals) ==
    IF i < 1
    THEN vals.src_val
    ELSE LET c == read_int(m, src + zeros[i]) IN
         strcpy_fold(m, src, zeros, i - 1,
                     [vals EXCEPT !.src_val =
                         ITEBV(8, NE(8, c, PyInt(0)), vals.src_val, vals.dst_val)])

RECURSIVE strcpy_tail(_, _, _, _, _, _)

\* for offset in range(null, -1, -1)
strcpy_tail(m, src, dst, offset, zeros, nw) ==
    IF offset < 0
    THEN [status |-> "ok", mem |-> m, nwrites |-> nw]
    ELSE IF ~ Mapped(m, dst + offset)
    THEN [status |-> "MemoryFault", mem |-> m, nwrites |-> nw]
    ELSE IF zeros = <<>>
    THEN [status |-> "IndexError", mem |-> m, nwrites |-> nw]
    ELSE LET src_val0 == read_int(m, src + offset)
             dst_val == read_int(m, dst + offset)
             hit == zeros[Len(zeros)] = offset
             src_val1 == IF hit
                         THEN ITEBV(8, NE(8, src_val0, PyInt(0)), src_val0, PyInt(0))
                         ELSE src_val0
             zeros1 == IF hit THEN SubSeq(zeros, 1, Len(zeros) - 1) ELSE zeros
             src_val == strcpy_fold(m, src, zeros1, Len(zeros1),
                                    [src_val |-> src_val1, dst_val |-> dst_val])
         IN  strcpy_tail(write_int(m, dst + offset, src_val), src, dst,
                         offset - 1, zeros1, nw + 1)

\* a terminator write that lands on the original dst instead of the advanced one
strcpy_terminate_at_start(p1, dst, lg) ==
    IF ~ Mapped(p1.mem, dst.val)
    THEN MemoryFault(p1.mem, lg, p1.nwrites)
    ELSE Returned(dst, write_int(p1.mem, dst.val, PyInt(0)), lg, p1.nwrites + 1)

\* the stopping byte is provably null: cpu.write_int(dst, 0, 8); return ret
strcpy_terminate(p1, dst, lg) ==
    IF ~ Mapped(p1.mem, p1.dst)
    THEN MemoryFault(p1.mem, lg, p1.nwrites)
    ELSE Returned(dst, write_int(p1.mem, p1.dst, PyInt(0)), lg, p1.nwrites + 1)

\* the stopping byte is ambiguous: scan the candidate terminators and write
\* the case analysis over them into the destination
strcpy_ambiguous(p1, cs, dst, lg) ==
    LET zs == _find_zeros(p1.mem, cs, p1.src)
        lg3 == lg \o zs.log
    IN
    IF zs.fault THEN MemoryFault(p1.mem, lg3, p1.nwrites)
    ELSE IF zs.zeros = <<>>
    THEN [outcome |-> "IndexError", ret |-> None, argnum |-> 0,
          mem |-> p1.mem, log |-> lg3, nwrites |-> p1.nwrites]
    ELSE
    LET null == zs.zeros[Len(zs.zeros)]
        t == strcpy_tail(p1.mem, p1.src, p1.dst, null, zs.zeros, p1.nwrites)
    IN
    IF t.status = "ok"
    THEN Returned(dst, t.mem, lg3, t.nwrites)
    ELSE [outcome |-> t.status, ret |-> None, argnum |-> 0,
          mem |-> t.mem, log |-> lg3, nwrites |-> t.nwrites]

strcpy(m, cs, dst, src) ==
    IF issymbolic(src) THEN ConcretizeArgument(1, m)
    ELSE IF issymbolic(dst) THEN ConcretizeArgument(2, m)
    ELSE
    LET p1 == strcpy_copy(m, cs, src.val, dst.val, <<>>, 0) IN
    IF p1.fault THEN MemoryFault(p1.mem, p1.log, p1.nwrites)
    ELSE
    LET c == read_int(p1.mem, p1.src)
        lg2 == p1.log \o ClassifierQueries(c, p1.src)
    IN
    IF is_NULL(c, cs)
    THEN strcpy_terminate(p1, dst, lg2)
    ELSE strcpy_ambiguous(p1, cs, dst, lg2)

----------------------------------------------------------------------------
(* The state machine: a state of the engine, then one call on it *)

\* what a memory cell can hold before the call
Cells == {PyInt(b) : b \in Bytes} \cup {BitVecVariable(8, v) : v \in Vars}

\* the formulas a path can have collected about the symbolic bytes
ConstraintMenu ==
    {EQ(8, BitVecVariable(8, v), PyInt(0)) : v \in Vars} \cup
    {NE(8, BitVecVariable(8, v), PyInt(0)) : v \in Vars}

\* every satisfiable set of them and, for each variable, the contradictory pair
ConstraintSets ==
    {cs \in SUBSET ConstraintMenu : Models(cs) # {}} \cup
    {{EQ(8, BitVecVariable(8, v), PyInt(0)), NE(8, BitVecVariable(8, v), PyInt(0))} :
        v \in Vars}

\* a symbolic pointer argument
SymbolicPointer == BitVecVariable(AddressBitSize, "p")

Pointers == {PyInt(a) : a \in DOMAIN mem} \cup {SymbolicPointer}

Blank ==
    /\ mem0 = mem
    /\ fn = "none"
    /\ arg1 = None
    /\ arg2 = None
    /\ outcome = "ready"
    /\ ret = None
    /\ argnum = 0
    /\ log = <<>>
    /\ nwrites = 0

\* any memory of MemSize cells whose last cell is a terminator
Init ==
    /\ mem \in {m \in [0 .. (MemSize - 1) -> Cells] : m[MemSize - 1] = PyInt(0)}
    /\ constrs \in ConstraintSets
    /\ Blank

\* what the destination buffer holds before the call
DstCells == {PyInt(0), PyInt(1), BitVecVariable(8, "y")}

\* two buffers side by side: a destination at 0 and a terminated source at BufSize
InitDisjoint ==
    /\ mem \in {[a \in 0 .. (2 * BufSize - 1) |->
                    IF a < BufSize THEN d[a]
                    ELSE IF a = 2 * BufSize - 1 THEN PyInt(0)
                    ELSE s[a]] :
                 d \in [0 .. (BufSize - 1) -> DstCells],
                 s \in [BufSize .. (2 * BufSize - 2) -> Cells]}
    /\ constrs \in ConstraintSets
    /\ Blank

\* the state after a model call with result r
Finish(name, a1, a2, r) ==
    /\ fn' = name
    /\ arg1' = a1
    /\ arg2' = a2
    /\ mem' = r.mem
    /\ outcome' = r.outcome
    /\ ret' = r.ret
    /\ argnum' = r.argnum
    /\ log' = r.log
    /\ nwrites' = r.nwrites
    /\ UNCHANGED <<mem0, constrs>>

CallStrlen ==
    /\ outcome = "ready"
    /\ \E s \in Pointers : Finish("strlen", s, None, strlen(mem, constrs, s))

CallStrcmp ==
    /\ outcome = "ready"
    /\ \E s1 \in Pointers, s2 \in Pointers :
          Finish("strcmp", s1, s2, strcmp(mem, constrs, s1, s2))

CallStrcpy ==
    /\ outcome = "ready"
    /\ \E dst \in Pointers, src \in Pointers :
          Finish("strcpy", dst, src, strcpy(mem, constrs, dst, src))

\* is_NULL and not_NULL applied to the byte at an address
CallClassify ==
    /\ outcome = "ready"
    /\ \E a \in DOMAIN mem :
          LET byte == read_int(mem, a) IN
          Finish("classify", PyInt(a), None,
                 Returned([is_NULL |-> is_NULL(byte, constrs),
                           not_NULL |-> not_NULL(byte, constrs)],
                          mem,
                          ClassifierQueries(byte, a) \o ClassifierQueries(byte, a),
                          0))

\* _find_zero and _find_zeros applied to the same start pointer
CallScan ==
    /\ outcome = "ready"
    /\ \E p \in DOMAIN mem :
          LET z == _find_zero(mem, constrs, p)
              zs == _find_zeros(mem, constrs, p)
          IN  Finish("scan", PyInt(p), None,
                     IF z.fault \/ zs.fault
                     THEN MemoryFault(mem, z.log \o zs.log, 0)
                     ELSE Returned([zero |-> z.offset, zeros |-> zs.zeros],
                                   mem, z.log \o zs.log, 0))

Next ==
    \/ CallStrlen
    \/ CallStrcmp
    \/ CallStrcpy
    \/ CallClassify
    \/ CallScan

Spec == Init /\ [][Next]_vars

\* strcmp alone, on the states of Spec
SpecStrcmp == Init /\ [][CallStrcmp]_vars

\* strcpy alone, on the states of Spec
SpecStrcpy == Init /\ [][CallStrcpy]_vars

\* strcpy from the source buffer into the destination buffer
CallStrcpyDisjoint ==
    /\ outcome = "ready"
    /\ Finish("strcpy", PyInt(0), PyInt(BufSize),
              strcpy(mem, constrs, PyInt(0), PyInt(BufSize)))

NextDisjoint == CallStrcpyDisjoint

SpecDisjoint == InitDisjoint /\ [][NextDisjoint]_vars

\* what a cell of the longer memory of SpecOverlap holds before the call
OverlapCells == {PyInt(0), PyInt(1), BitVecVariable(8, "x")}

\* the constraint sets about the one symbolic byte of that memory
OverlapConstraintSets ==
    {cs \in ConstraintSets : \A c \in cs : c.a = BitVecVariable(8, "x")}

\* a memory two cells longer than that of Spec, ending with a terminator: long
\* enough for a copy to overwrite its own source terminator and still return
InitOverlap ==
    /\ mem \in {m \in [0 .. (MemSize + 1) -> OverlapCells] : m[MemSize + 1] = PyInt(0)}
    /\ constrs \in OverlapConstraintSets
    /\ Blank

\* strcpy between any two addresses of it: the destination behind the source,
\* inside the source string, or clear of it
CallStrcpyOverlap ==
    /\ outcome = "ready"
    /\ \E dst \in DOMAIN mem, src \in DOMAIN mem :
          Finish("strcpy", PyInt(dst), PyInt(src),
                 strcpy(mem, constrs, PyInt(dst), PyInt(src)))

NextOverlap == CallStrcpyOverlap

SpecOverlap == InitOverlap /\ [][NextOverlap]_vars

----------------------------------------------------------------------------
(* Reference semantics *)

IsConcrete(m) == \A a \in DOMAIN m : ~ issymbolic(m[a])

\* the value of the byte at addr under an assignment
ByteUnder(m, addr, a) == EvalBV(m[addr], a)

Minimum(S) == CHOOSE k \in S : \A j \in S : k <= j

\* offsets from p of the mapped bytes that are zero under a
ZeroOffsets(m, p, a) ==
    {k \in 0 .. Cardinality(DOMAIN m) : Mapped(m, p + k) /\ ByteUnder(m, p + k, a) = 0}

\* libc strlen under an assignment: the offset of the first zero byte (-1: none)
RefStrlen(m, p, a) ==
    IF ZeroOffsets(m, p, a) = {} THEN -1 ELSE Minimum(ZeroOffsets(m, p, a))

\* the assignment used to read off fully concrete memory
AnyAssignment == CHOOSE a \in Assignments : TRUE

\* libc strcmp under an assignment, for a terminated first string: the difference
\* of the bytes at the first offset where the strings differ or the first ends
RefStrcmp(m, p1, p2, a) ==
    LET stop == {k \in 0 .. RefStrlen(m, p1, a) :
                    \/ ~ Mapped(m, p2 + k)
                    \/ ByteUnder(m, p1 + k, a) # ByteUnder(m, p2 + k, a)
                    \/ ByteUnder(m, p1 + k, a) = 0}
        k == Minimum(stop)
    IN  [offset |-> k,
         diff |-> IF Mapped(m, p2 + k)
                  THEN ByteUnder(m, p1 + k, a) - ByteUnder(m, p2 + k, a)
                  ELSE ByteUnder(m, p1 + k, a)]

----------------------------------------------------------------------------
(* C1: strlen *)

\* C1: a strlen call that returns yields a Python int or an if-then-else
\* expression whose value, under every assignment satisfying the constraint
\* set, is the offset of the earliest byte at or after s that is zero under
\* that assignment; on fully concrete memory it is the int libc strlen gives.
C1_StrlenEarliestZero ==
    (fn = "strlen" /\ outcome = "returned") =>
        /\ ret.op \in {"int", "ite"}
        /\ \A a \in Models(constrs) : EvalBV(ret, a) = RefStrlen(mem0, arg1.val, a)
        /\ IsConcrete(mem0) => ret = PyInt(RefStrlen(mem0, arg1.val, AnyAssignment))

\* a call whose result is an expression with two different lengths among the
\* satisfying assignments
C1_Witness ==
    /\ fn = "strlen"
    /\ outcome = "returned"
    /\ ret.op = "ite"
    /\ \E a \in Models(constrs), b \in Models(constrs) : EvalBV(ret, a) # EvalBV(ret, b)

----------------------------------------------------------------------------
(* C2: strcmp on concrete memory *)

\* C2: on fully concrete memory a strcmp call that returns yields the int
\* s1[k] - s2[k] of the bytes at the smallest offset k where the strings differ
\* (0 when they agree up to and including the terminator), and no byte
\* after offset k influences the result: rewriting any one byte that lies after
\* offset k in both strings leaves the result the same.
C2_StrcmpConcrete ==
    (fn = "strcmp" /\ outcome = "returned" /\ IsConcrete(mem0)) =>
        LET r == RefStrcmp(mem0, arg1.val, arg2.val, AnyAssignment) IN
        /\ ret = PyInt(r.diff)
        /\ r.offset <= RefStrlen(mem0, arg1.val, AnyAssignment)
        /\ r.offset <= RefStrlen(mem0, arg2.val, AnyAssignment)
        /\ \A addr \in DOMAIN mem0, b \in Bytes :
              (addr \notin (arg1.val .. arg1.val + r.offset)
                            \cup (arg2.val .. arg2.val + r.offset)) =>
                 LET other == strcmp(write_int(mem0, addr, PyInt(b)), constrs, arg1, arg2)
                 IN  other.outcome = "returned" => other.ret = ret

\* a call on concrete memory where the strings agree at offset 0, differ at a
\* later offset before the terminator, and bytes after the difference differ too
C2_Witness ==
    /\ fn = "strcmp"
    /\ outcome = "returned"
    /\ IsConcrete(mem0)
    /\ RefStrcmp(mem0, arg1.val, arg2.val, AnyAssignment).offset = 1
    /\ ret.val < 0
    /\ Mapped(mem0, arg1.val + 2) /\ Mapped(mem0, arg2.val + 2)
    /\ mem0[arg1.val + 2] # mem0[arg2.val + 2]

----------------------------------------------------------------------------
(* C3: strcpy on concrete memory *)

\* the address ranges [p, p + n] and [q, q + n] share no address
Disjoint(p, q, n) == (p .. p + n) \cap (q .. q + n) = {}

\* C3: on fully concrete memory, with the source terminated at offset n, the
\* destination range mapped and the two ranges disjoint, strcpy returns the
\* original dst, dst[i] = src[i] for 0 <= i <= n (dst[n] = 0) and every byte
\* outside dst .. dst + n is unchanged.
C3_StrcpyConcrete ==
    (fn = "strcpy" /\ IsConcrete(mem0) /\ ~ issymbolic(arg1) /\ ~ issymbolic(arg2)) =>
        LET d == arg1.val
            s == arg2.val
            n == RefStrlen(mem0, s, AnyAssignment)
        IN  (n >= 0 /\ Mapped(mem0, d + n) /\ Disjoint(d, s, n)) =>
               /\ outcome = "returned"
               /\ ret = arg1
               /\ \A i \in 0 .. n : mem[d + i] = mem0[s + i]
               /\ mem[d + n] = PyInt(0)
               /\ \A a \in DOMAIN mem0 \ (d .. d + n) : mem[a] = mem0[a]

\* a copy of a non-empty string over a destination that held other non-zero bytes
C3_Witness ==
    /\ fn = "strcpy"
    /\ outcome = "returned"
    /\ IsConcrete(mem0)
    /\ RefStrlen(mem0, arg2.val, AnyAssignment) >= 1
    /\ Disjoint(arg1.val, arg2.val, RefStrlen(mem0, arg2.val, AnyAssignment))
    /\ mem0[arg1.val] # mem0[arg2.val]
    /\ mem0[arg1.val + 1] # PyInt(0)
    /\ mem[arg1.val + 1] = PyInt(0)

----------------------------------------------------------------------------
(* C4: concretization *)

\* C4: a call with a symbolic pointer argument raises ConcretizeArgument with
\* the position of a symbolic argument in the parameter list (arg1 is the
\* first parameter after state, arg2 the second), and has written nothing.
C4_ConcretizePosition ==
    (fn \in {"strlen", "strcmp", "strcpy"} /\ (issymbolic(arg1) \/ issymbolic(arg2))) =>
        /\ outcome = "ConcretizeArgument"
        /\ nwrites = 0
        /\ mem = mem0
        /\ \/ argnum = 1 /\ issymbolic(arg1)
           \/ argnum = 2 /\ issymbolic(arg2)

----------------------------------------------------------------------------
(* C5: the terminator strcpy leaves in the destination *)

\* the offset from src of the first provably null source byte before the call
SourceTerminator == _find_zero(mem0, constrs, arg2.val)

\* the copy loop of the call in the state: where it stopped
CopyStop == strcpy_copy(mem0, constrs, arg2.val, arg1.val, <<>>, 0)

\* the call in the state took the ambiguous-terminator path
AmbiguousPath ==
    /\ fn = "strcpy"
    /\ outcome = "returned"
    /\ ~ is_NULL(read_int(CopyStop.mem, CopyStop.src), constrs)

\* C5 as stated: after a strcpy that returns, some destination byte at an
\* offset no later than the source's definite terminator is provably null
\* (is_NULL: a concrete 0 or an expression the constraints force to 0).
C5_ProvablyNullTerminator ==
    (fn = "strcpy" /\ outcome = "returned" /\ ~ SourceTerminator.fault) =>
        \E k \in 0 .. SourceTerminator.offset :
            /\ Mapped(mem, arg1.val + k)
            /\ is_NULL(read_int(mem, arg1.val + k), constrs)

\* C5 amended: after a strcpy that returns, with the source range up to its
\* definite terminator at offset t and the destination range of the same
\* length sharing no address, under every assignment that satisfies the
\* constraint set some destination byte at an offset no later than t
\* evaluates to zero; when the byte that stopped the copy is provably null,
\* the byte written at the stopping offset is a concrete 0, and with a
\* satisfiable constraint set that offset is no later than t.
C5_TerminatorUnderEveryAssignment ==
    (/\ fn = "strcpy"
     /\ outcome = "returned"
     /\ ~ SourceTerminator.fault
     /\ Disjoint(arg1.val, arg2.val, SourceTerminator.offset)) =>
        /\ \A a \in Models(constrs) :
              \E k \in 0 .. SourceTerminator.offset :
                  /\ Mapped(mem, arg1.val + k)
                  /\ ByteUnder(mem, arg1.val + k, a) = 0
        /\ ~ AmbiguousPath =>
              /\ Mapped(mem, CopyStop.dst)
              /\ read_int(mem, CopyStop.dst) = PyInt(0)
              /\ Models(constrs) # {} =>
                    CopyStop.dst - arg1.val <= SourceTerminator.offset

\* the ambiguous path over a destination that held non-zero bytes: the
\* terminator sits at different offsets under different assignments
C5_Witness ==
    /\ AmbiguousPath
    /\ Disjoint(arg1.val, arg2.val, SourceTerminator.offset)
    /\ \A k \in 0 .. SourceTerminator.offset :
          ~ issymbolic(mem0[arg1.val + k]) /\ mem0[arg1.val + k].val # 0
    /\ \E a \in Models(constrs), b \in Models(constrs) :
          /\ ByteUnder(mem, arg1.val, a) = 0
          /\ ByteUnder(mem, arg1.val, b) # 0
          /\ ByteUnder(mem, arg1.val + 1, b) = 0

----------------------------------------------------------------------------
(* C9: strcpy with symbolic source bytes *)

\* C9: for a strcpy that returns, with a satisfiable constraint set and source
\* and destination ranges (up to the source's definite terminator) disjoint:
\* it returns the original dst and, under every satisfying assignment, with n
\* the offset of the first source byte that is zero under it, the destination
\* evaluates to src[i] for 0 <= i <= n and every other byte of memory,
\* the destination bytes after offset n included, to its value before the call.
C9_StrcpyUnderEveryAssignment ==
    (/\ fn = "strcpy"
     /\ outcome = "returned"
     /\ Models(constrs) # {}
     /\ ~ SourceTerminator.fault
     /\ Disjoint(arg1.val, arg2.val, SourceTerminator.offset)) =>
        /\ ret = arg1
        /\ \A a \in Models(constrs) :
              LET n == RefStrlen(mem0, arg2.val, a) IN
              \A addr \in DOMAIN mem0 :
                  ByteUnder(mem, addr, a) =
                      IF addr \in arg1.val .. (arg1.val + n)
                      THEN ByteUnder(mem0, arg2.val + (addr - arg1.val), a)
                      ELSE ByteUnder(mem0, addr, a)

\* the ambiguous path with two candidate terminators before the forced one,
\* over a non-zero destination: under one assignment the copy ends at offset 0
\* and the later destination bytes keep their non-zero values, under another
\* it runs to the forced terminator
C9_Witness ==
    /\ AmbiguousPath
    /\ Len(_find_zeros(mem0, constrs, arg2.val).zeros) >= 3
    /\ \E a \in Models(constrs), b \in Models(constrs) :
          /\ RefStrlen(mem0, arg2.val, a) = 0
          /\ ByteUnder(mem, arg1.val + 1, a) # 0
          /\ ByteUnder(mem, arg1.val + 2, a) # 0
          /\ RefStrlen(mem0, arg2.val, b) = 2
          /\ ByteUnder(mem, arg1.val + 2, b) = 0

----------------------------------------------------------------------------
(* C6: when strcmp is zero *)

\* under a, the two strings cut at their first zero byte are equal
StringsEqualUnder(m, p1, p2, a) ==
    LET r == RefStrcmp(m, p1, p2, a) IN
    Mapped(m, p2 + r.offset) /\ r.diff = 0

\* C6: for a strcmp that returns, under every assignment that satisfies the
\* constraint set the result evaluates to 0 if and only if the two strings,
\* cut at their first zero byte under that assignment, are equal.
C6_StrcmpZeroIffEqual ==
    (fn = "strcmp" /\ outcome = "returned") =>
        \A a \in Models(constrs) :
            (EvalBV(ret, a) = 0) <=> StringsEqualUnder(mem0, arg1.val, arg2.val, a)

----------------------------------------------------------------------------
(* C7: the classifier *)

\* C7 as stated: for every byte and every constraint set, satisfiable or not,
\* is_NULL and not_NULL are never both true, and for a concrete byte exactly
\* one of them is true.
C7_ClassifierExclusive ==
    fn = "classify" =>
        /\ ~ (ret.is_NULL /\ ret.not_NULL)
        /\ ~ issymbolic(mem0[arg1.val]) => (ret.is_NULL <=> ~ ret.not_NULL)

\* C7 amended: for a concrete byte exactly one of is_NULL and not_NULL is
\* true under any constraint set; for a symbolic byte they are never both true
\* under a satisfiable constraint set (both may be false).
C7_ClassifierExclusiveWhenSatisfiable ==
    fn = "classify" =>
        /\ ~ issymbolic(mem0[arg1.val]) => (ret.is_NULL <=> ~ ret.not_NULL)
        /\ Models(constrs) # {} => ~ (ret.is_NULL /\ ret.not_NULL)

\* a symbolic byte the constraints force to be non-zero: not_NULL alone is true
C7_Witness ==
    /\ fn = "classify"
    /\ issymbolic(mem0[arg1.val])
    /\ Models(constrs) # {}
    /\ ret.not_NULL
    /\ ~ ret.is_NULL

----------------------------------------------------------------------------
(* C8: the scanners *)

\* what C8 says of the scan results z = _find_zero, zs = _find_zeros
ScanMonotone(m, cs, p, z, zs) ==
    /\ zs # <<>>
    /\ \A i \in 1 .. (Len(zs) - 1) : zs[i] < zs[i + 1]
    /\ zs[Len(zs)] = z
    /\ \A i \in 1 .. (Len(zs) - 1) :
          LET byt == m[p + zs[i]] IN
          /\ issymbolic(byt)
          /\ \E a \in Models(cs) : EvalBV(byt, a) = 0
          /\ \E a \in Models(cs) : EvalBV(byt, a) # 0

\* C8 as stated: for every memory, constraint set and start pointer for which
\* the scans terminate, _find_zeros returns a non-empty strictly increasing
\* list whose last element is _find_zero's offset and whose earlier elements
\* are offsets of symbolic bytes that can be zero but are not forced to be.
C8_ScannerMonotone ==
    (fn = "scan" /\ outcome = "returned") =>
        ScanMonotone(mem0, constrs, arg1.val, ret.zero, ret.zeros)

\* C8 amended: the same, for every satisfiable constraint set.
C8_ScannerMonotoneWhenSatisfiable ==
    (fn = "scan" /\ outcome = "returned" /\ Models(constrs) # {}) =>
        ScanMonotone(mem0, constrs, arg1.val, ret.zero, ret.zeros)

\* a scan that passes a non-null byte and an ambiguous symbolic byte and ends
\* at a symbolic byte the constraints force to zero
C8_Witness ==
    /\ fn = "scan"
    /\ outcome = "returned"
    /\ Models(constrs) # {}
    /\ Len(ret.zeros) >= 2
    /\ ret.zeros[1] > 0
    /\ issymbolic(mem0[arg1.val + ret.zero])

----------------------------------------------------------------------------
(* C10: solver queries per byte *)

\* the number of solver queries of the call about the byte at addr
QueriesAbout(addr) == Cardinality({i \in 1 .. Len(log) : log[i].addr = addr})

ModelCall == fn \in {"strlen", "strcmp", "strcpy"}

\* C10 as stated: one call of strlen, strcmp or strcpy issues at most two
\* solver queries about the byte at any one address, and none about a
\* concrete byte.
C10_AtMostTwoQueries ==
    ModelCall =>
        /\ \A addr \in DOMAIN mem0 : QueriesAbout(addr) <= 2
        /\ \A i \in 1 .. Len(log) : issymbolic(log[i].byte)

\* C10 amended: one call issues at most two solver queries about the byte at
\* any one address, except that a strcpy whose copy loop stops at a byte that
\* is not provably null issues four about that byte (not_NULL, is_NULL and the
\* two of _find_zeros); no query is about a concrete byte.
C10_AtMostTwoQueriesButStop ==
    ModelCall =>
        /\ \A addr \in DOMAIN mem0 :
              \/ QueriesAbout(addr) <= 2
              \/ /\ fn = "strcpy"
                 /\ outcome # "ConcretizeArgument"
                 /\ addr = CopyStop.src
                 /\ QueriesAbout(addr) = 4
        /\ \A i \in 1 .. Len(log) : issymbolic(log[i].byte)

\* a strcpy on the ambiguous path: four queries about the stopping byte, two
\* about a later symbolic byte
C10_Witness ==
    /\ AmbiguousPath
    /\ QueriesAbout(CopyStop.src) = 4
    /\ \E addr \in DOMAIN mem0 : addr > CopyStop.src /\ QueriesAbout(addr) = 2

====
